---- MODULE Spec2Model ----
(***************************************************************************)
(* A model of the rfs virtual file system (src/filesystem.rs): the block   *)
(* geometry, the fixed-width little-endian codec, init and insert over a   *)
(* backing store of bytes, and the directory-chain readers the design      *)
(* document describes.                                                     *)
(*                                                                         *)
(* The backing store is kept as its byte content, cut into the extents the *)
(* layout defines (the Main record, each region's kind header, each block  *)
(* slot, and the bytes past the layout): store[a] is the byte sequence     *)
(* that starts at offset a.  Every read decodes bytes and every write      *)
(* encodes a record, as the code does.                                     *)
(***************************************************************************)
EXTENDS Integers, Sequences, FiniteSets, TLC

VARIABLES
  store,    \* the backing store: extent start offset -> bytes
  size,     \* number of bytes the backing store holds
  alive,    \* FALSE once an operation has panicked (the process is gone)
  last,     \* the last operation called, its arguments and its outcome
  hist,     \* history: the successful inserts since init, oldest first
  cval,     \* codec: the record under test
  cbytes,   \* codec: its encoding
  cdec,     \* codec: the result of decoding cbytes
  memcache, \* flat table (src/lib.rs): the bytes of the in-memory store
  falive,   \* flat table: FALSE once a call has panicked
  flast,    \* flat table: the last call, its arguments and its outcome
  fcalls    \* flat table: the successful create_file calls, oldest first

vars ==
  <<store, size, alive, last, hist, cval, cbytes, cdec,
    memcache, falive, flast, fcalls>>
fsvars == <<store, size, alive, last, hist>>
codecvars == <<cval, cbytes, cdec>>
flatvars == <<memcache, falive, flast, fcalls>>

-----------------------------------------------------------------------------
(* Bounds of the model *)

\* init is called with every size from 0 to the minimum layout size + MaxSlack
MaxSlack == 1
\* inserts per run under Spec (inputs drawn freely from Inputs)
MaxInserts == 3
MaxCreates == 3
\* how many bytes a reader may hold beyond one encoded record
MaxSurplus == 1

-----------------------------------------------------------------------------
(* Geometry: BlockAlign and its four implementations *)

BlockKindMain == [HEADER_SIZE |-> 32, SIZE |-> 0, COUNT |-> 0, ident |-> 0]
BlockKindHeader == [HEADER_SIZE |-> 16, SIZE |-> 32, COUNT |-> 128, ident |-> 1]
BlockKindTitle == [HEADER_SIZE |-> 16, SIZE |-> 32, COUNT |-> 128, ident |-> 2]
BlockKindData == [HEADER_SIZE |-> 16, SIZE |-> 128, COUNT |-> 32, ident |-> 3]

block_size(K) == K.SIZE
block_count(K) == K.COUNT
header_size(K) == K.HEADER_SIZE
\* a slip: the kind header left out of the region's size
super_block_size_blocks_only(K) == K.SIZE * K.COUNT

super_block_size(K) == K.SIZE * K.COUNT + K.HEADER_SIZE

Zeros(n) == [i \in 1..n |-> 0]

\* initial_header: Main is all zero; the others are the ident byte, then zeros
initial_header(K) ==
  IF K.ident = 0 THEN Zeros(K.HEADER_SIZE)
  ELSE <<K.ident>> \o Zeros(K.HEADER_SIZE - 1)

\* lengths of the FileTitle and FileData payload arrays
TitleLen == 16
DataLen == 112

\* region starts, as init_main_header and init_superblocks compute them
header_sb_start == super_block_size(BlockKindMain)
title_sb_start == header_sb_start + super_block_size(BlockKindHeader)
data_sb_start == title_sb_start + super_block_size(BlockKindTitle)
\* the size clear_and_check_size asks for in the end
MinTotalSize == data_sb_start + super_block_size(BlockKindData)

-----------------------------------------------------------------------------
(* Codec: ToBytes / FromBytes.  A decoder reads from a byte sequence (the   *)
(* reader's remaining bytes) and fails when read_exact runs out of bytes.   *)

RECURSIVE LEBytes(_, _)
LEBytes(v, n) == IF n = 0 THEN <<>> ELSE <<v % 256>> \o LEBytes(v \div 256, n - 1)

RECURSIVE LEValue(_)
LEValue(b) == IF b = <<>> THEN 0 ELSE Head(b) + 256 * LEValue(Tail(b))

u64_to_le_bytes(v) == LEBytes(v, 8)
u64_from_le_bytes(b) == LEValue(b)

Take(b, n) == SubSeq(b, 1, n)
Drop(b, n) == SubSeq(b, n + 1, Len(b))

IoOk(v) == [ok |-> TRUE, value |-> v]
IoErr == [ok |-> FALSE, value |-> "UnexpectedEof"]

BlockKindMain_to_bytes(m) ==
  u64_to_le_bytes(m.free_header_ptr) \o u64_to_le_bytes(m.free_title_ptr)
    \o u64_to_le_bytes(m.free_data_ptr) \o u64_to_le_bytes(m.first_header_ptr)

\* a slip: the second field decoded from the first field's bytes
BlockKindMain_from_bytes_repeated(r) ==
  IF Len(r) < 32 THEN IoErr
  ELSE IoOk([free_header_ptr |-> u64_from_le_bytes(SubSeq(r, 1, 8)),
             free_title_ptr |-> u64_from_le_bytes(SubSeq(r, 1, 8)),
             free_data_ptr |-> u64_from_le_bytes(SubSeq(r, 17, 24)),
             first_header_ptr |-> u64_from_le_bytes(SubSeq(r, 25, 32))])

BlockKindMain_from_bytes(r) ==
  IF Len(r) < 32 THEN IoErr
  ELSE IoOk([free_header_ptr |-> u64_from_le_bytes(SubSeq(r, 1, 8)),
             free_title_ptr |-> u64_from_le_bytes(SubSeq(r, 9, 16)),
             free_data_ptr |-> u64_from_le_bytes(SubSeq(r, 17, 24)),
             first_header_ptr |-> u64_from_le_bytes(SubSeq(r, 25, 32))])

FileHeader_to_bytes(h) ==
  u64_to_le_bytes(h.start_title_block) \o u64_to_le_bytes(h.start_data_block)

FileHeader_from_bytes(r) ==
  IF Len(r) < 16 THEN IoErr
  ELSE IoOk([start_title_block |-> u64_from_le_bytes(SubSeq(r, 1, 8)),
             start_data_block |-> u64_from_le_bytes(SubSeq(r, 9, 16))])

FileTitle_to_bytes(t) == t.data

FileTitle_from_bytes(r) ==
  IF Len(r) < TitleLen THEN IoErr ELSE IoOk([data |-> Take(r, TitleLen)])

FileData_to_bytes(d) == d.data

\* a slip: a short read padded with zeros instead of failing
FileData_from_bytes_padded(r) ==
  IoOk([data |-> Take(r \o Zeros(DataLen), DataLen)])

FileData_from_bytes(r) ==
  IF Len(r) < DataLen THEN IoErr ELSE IoOk([data |-> Take(r, DataLen)])

\* the payload codec of a block kind ("H", "T", "D")
Payload_to_bytes(k, p) ==
  CASE k = "H" -> FileHeader_to_bytes(p)
    [] k = "T" -> FileTitle_to_bytes(p)
    [] k = "D" -> FileData_to_bytes(p)

Payload_from_bytes(k, r) ==
  CASE k = "H" -> FileHeader_from_bytes(r)
    [] k = "T" -> FileTitle_from_bytes(r)
    [] k = "D" -> FileData_from_bytes(r)

Block_to_bytes(k, b) ==
  u64_to_le_bytes(b.prev_block) \o u64_to_le_bytes(b.next_block)
    \o Payload_to_bytes(k, b.data)

Block_from_bytes(k, r) ==
  IF Len(r) < 16 THEN IoErr
  ELSE LET d == Payload_from_bytes(k, Drop(r, 16))
       IN IF ~d.ok THEN IoErr
          ELSE IoOk([prev_block |-> u64_from_le_bytes(SubSeq(r, 1, 8)),
                     next_block |-> u64_from_le_bytes(SubSeq(r, 9, 16)),
                     data |-> d.value])

-----------------------------------------------------------------------------
(* The backing store *)

None == [some |-> FALSE, v |-> <<>>]
Some(b) == [some |-> TRUE, v |-> b]

NoStore == <<>>

\* the next n bytes a reader finds after seek(SeekFrom::Start(index)), read
\* across extents; fewer than n when the store ends first
RECURSIVE Stream(_, _, _, _)
Stream(s, sz, index, n) ==
  IF n = 0 \/ index >= sz THEN <<>>
  ELSE IF Len(s[index]) >= n THEN SubSeq(s[index], 1, n)
  ELSE s[index] \o Stream(s, sz, index + Len(s[index]), n - Len(s[index]))

\* seek(SeekFrom::Start(index)), then write_all(bytes): the bytes replace
\* what the store holds from index on, across extents
RECURSIVE WriteAt(_, _, _)
WriteAt(s, index, bytes) ==
  IF bytes = <<>> THEN s
  ELSE IF Len(bytes) <= Len(s[index])
    THEN [s EXCEPT ![index] = bytes \o SubSeq(@, Len(bytes) + 1, Len(@))]
  ELSE WriteAt([s EXCEPT ![index] = SubSeq(bytes, 1, Len(@))],
               index + Len(s[index]),
               SubSeq(bytes, Len(s[index]) + 1, Len(bytes)))

ZeroPayload(k) ==
  CASE k = "H" -> [start_title_block |-> 0, start_data_block |-> 0]
    [] k = "T" -> [data |-> Zeros(TitleLen)]
    [] k = "D" -> [data |-> Zeros(DataLen)]

ZeroBlock(k) == [prev_block |-> 0, next_block |-> 0, data |-> ZeroPayload(k)]

\* where block slot i of a region lies
BlockAddr(K, start, i) == start + header_size(K) + i * block_size(K)
BlockAddrs(K, start) == {BlockAddr(K, start, i) : i \in 0..(block_count(K) - 1)}

HeaderAddrs == BlockAddrs(BlockKindHeader, header_sb_start)
TitleAddrs == BlockAddrs(BlockKindTitle, title_sb_start)
DataAddrs == BlockAddrs(BlockKindData, data_sb_start)

\* the extents of a store of sz >= MinTotalSize bytes, and their lengths
Extents(sz) ==
  {0, header_sb_start, title_sb_start, data_sb_start}
    \cup HeaderAddrs \cup TitleAddrs \cup DataAddrs
    \cup (IF sz > MinTotalSize THEN {MinTotalSize} ELSE {})

ExtentLen(sz, a) ==
  CASE a = 0 -> header_size(BlockKindMain)
    [] a = header_sb_start -> header_size(BlockKindHeader)
    [] a = title_sb_start -> header_size(BlockKindTitle)
    [] a = data_sb_start -> header_size(BlockKindData)
    [] a \in HeaderAddrs -> block_size(BlockKindHeader)
    [] a \in TitleAddrs -> block_size(BlockKindTitle)
    [] a \in DataAddrs -> block_size(BlockKindData)
    [] OTHER -> sz - MinTotalSize

-----------------------------------------------------------------------------
(* init *)

ResOk == [kind |-> "Ok", what |-> ""]
ResErr(w) == [kind |-> "Err", what |-> w]
ResPanic(w) == [kind |-> "Panic", what |-> w]

\* the four cumulative checks; on success the store is size zero bytes
clear_and_check_size(sz) ==
  LET n1 == super_block_size(BlockKindMain)
      n2 == n1 + super_block_size(BlockKindHeader)
      n3 == n2 + super_block_size(BlockKindTitle)
      n4 == n3 + super_block_size(BlockKindData)
  IN IF sz < n1 THEN ResErr("TooSmallForMainSuperBlock")
     ELSE IF sz < n2 THEN ResErr("TooSmallForHeaderSuperBlock")
     ELSE IF sz < n3 THEN ResErr("TooSmallForTitleSuperBlock")
     ELSE IF sz < n4 THEN ResErr("TooSmallForDataSuperBlock")
     ELSE ResOk

Cleared(sz) == [a \in Extents(sz) |-> Zeros(ExtentLen(sz, a))]

\* a slip: the free pointers at the region starts, on the kind headers
init_main_header_at_region_start ==
  [free_header_ptr |-> header_sb_start,
   free_title_ptr |-> title_sb_start,
   free_data_ptr |-> data_sb_start,
   first_header_ptr |-> 0]

\* the Main record init_main_header writes at offset 0
init_main_header ==
  [free_header_ptr |-> header_sb_start + header_size(BlockKindHeader),
   free_title_ptr |-> title_sb_start + header_size(BlockKindTitle),
   free_data_ptr |-> data_sb_start + header_size(BlockKindData),
   first_header_ptr |-> 0]

\* the stream position before block i of a region is written: the region's
\* start, the kind header written, and i encoded blocks
Cursor(k, K, start, i) ==
  start + Len(initial_header(K)) + i * Len(Block_to_bytes(k, ZeroBlock(k)))

\* a slip: the last block of a region linked onwards instead of ending
\* the chain
InitBlock_unterminated(k, K, start, i) ==
  [prev_block |-> IF i = 0 THEN 0 ELSE Cursor(k, K, start, i - 1),
   next_block |-> Cursor(k, K, start, i) + block_size(K),
   data |-> ZeroPayload(k)]

\* block i as the loop of init_superblocks builds it
InitBlock(k, K, start, i) ==
  [prev_block |-> IF i = 0 THEN 0 ELSE Cursor(k, K, start, i - 1),
   next_block |-> IF i < block_count(K) - 1
                    THEN Cursor(k, K, start, i) + block_size(K) ELSE 0,
   data |-> ZeroPayload(k)]

\* what init_superblocks writes into one region: offset -> bytes
SuperBlockWrites(k, K, start) ==
  LET at == [i \in 0..(block_count(K) - 1) |-> Cursor(k, K, start, i)]
  IN [a \in {start} \cup {at[i] : i \in 0..(block_count(K) - 1)} |->
        IF a = start THEN initial_header(K)
        ELSE LET i == CHOOSE j \in 0..(block_count(K) - 1) : at[j] = a
             IN Block_to_bytes(k, InitBlock(k, K, start, i))]

init_superblocks ==
  SuperBlockWrites("H", BlockKindHeader, header_sb_start)
    @@ SuperBlockWrites("T", BlockKindTitle, title_sb_start)
    @@ SuperBlockWrites("D", BlockKindData, data_sb_start)

\* the store after a successful init(sz)
InitStore(sz) ==
  init_superblocks @@ (0 :> BlockKindMain_to_bytes(init_main_header)) @@ Cleared(sz)

NoName == <<>>
NoMain == [free_header_ptr |-> 0, free_title_ptr |-> 0, free_data_ptr |-> 0,
           first_header_ptr |-> 0]

\* init(size): every step is unwrapped, so a sizing error aborts the process
init(sz) ==
  /\ alive
  /\ LET c == clear_and_check_size(sz)
     IN IF c.kind = "Ok"
        THEN /\ store' = InitStore(sz)
             /\ size' = sz
             /\ alive' = TRUE
             /\ last' = [op |-> "init", size |-> sz, name |-> NoName,
                         data |-> NoName, pre |-> NoMain, result |-> ResOk]
        ELSE /\ UNCHANGED <<store, size>>
             /\ alive' = FALSE
             /\ last' = [op |-> "init", size |-> sz, name |-> NoName,
                         data |-> NoName, pre |-> NoMain,
                         result |-> ResPanic(c.what)]
  /\ hist' = <<>>
  /\ UNCHANGED <<codecvars, flatvars>>

-----------------------------------------------------------------------------
(* insert *)

\* the bytes one record of each type takes: four u64, and two u64 and the payload
MainWidth == 4 * 8
BlockWidth(k) == 2 * 8 + Len(Payload_to_bytes(k, ZeroPayload(k)))

read_main_header(s, sz) == BlockKindMain_from_bytes(Stream(s, sz, 0, MainWidth))

\* read_header_block / read_title_block / read_data_block: None for index 0
read_block(k, s, sz, index) ==
  IF index = 0 THEN IoOk(None)
  ELSE LET b == Block_from_bytes(k, Stream(s, sz, index, BlockWidth(k)))
       IN IF b.ok THEN IoOk(Some(b.value)) ELSE IoErr

read_header_block(s, sz, index) == read_block("H", s, sz, index)
read_title_block(s, sz, index) == read_block("T", s, sz, index)
read_data_block(s, sz, index) == read_block("D", s, sz, index)

write_main_header(s, m) == WriteAt(s, 0, BlockKindMain_to_bytes(m))
write_header_block(s, index, b) == WriteAt(s, index, Block_to_bytes("H", b))
\* a slip: the title written one block further on
write_title_block_at_next(s, index, b) ==
  WriteAt(s, index + block_size(BlockKindTitle), Block_to_bytes("T", b))

write_title_block(s, index, b) == WriteAt(s, index, Block_to_bytes("T", b))
write_data_block(s, index, b) == WriteAt(s, index, Block_to_bytes("D", b))

Min(a, b) == IF a < b THEN a ELSE b

\* the loop "for (i, byte) in bytes.enumerate().take(112) { buf[i] = byte }"
\* over a zeroed buffer of n bytes; it indexes out of bounds when more than
\* n bytes are copied
CopyInto(n, bytes) ==
  [i \in 1..n |-> IF i <= Min(Len(bytes), 112) THEN bytes[i] ELSE 0]

\* a slip: the title and data pointers of the new header swapped
header_block_swapped(free_file_header, main_header) ==
  [prev_block |-> free_file_header.prev_block,
   next_block |-> main_header.first_header_ptr,
   data |-> [start_title_block |-> main_header.free_data_ptr,
             start_data_block |-> main_header.free_title_ptr]]

\* the header block insert builds from the popped block and the Main record
header_block(free_file_header, main_header) ==
  [prev_block |-> free_file_header.prev_block,
   next_block |-> main_header.first_header_ptr,
   data |-> [start_title_block |-> main_header.free_title_ptr,
             start_data_block |-> main_header.free_data_ptr]]

\* a slip: the next free title block taken to be the one that follows in
\* the region instead of the popped block's next_block
updated_main_header_by_size(main_header, free_title_block) ==
  [main_header EXCEPT !.first_header_ptr = main_header.free_header_ptr,
                      !.free_title_ptr = main_header.free_title_ptr
                                           + block_size(BlockKindTitle)]

\* a slip: the directory head left where it was
updated_main_header_stale(main_header, free_title_block) ==
  [main_header EXCEPT !.free_title_ptr = free_title_block.next_block]

\* the Main record insert writes back
updated_main_header(main_header, free_title_block) ==
  [main_header EXCEPT !.first_header_ptr = main_header.free_header_ptr,
                      !.free_title_ptr = free_title_block.next_block]

\* insert(name, data) on store s of sz bytes: its outcome and the store after
insert_outcome(s, sz, name, data) ==
  LET mh == read_main_header(s, sz)
      main_header == mh.value
      ffh == read_header_block(s, sz, main_header.free_header_ptr)
      free_file_header == ffh.value.v
      prev_file_header == read_header_block(s, sz, free_file_header.prev_block)
      next_file_header == read_header_block(s, sz, free_file_header.next_block)
      ftb == read_title_block(s, sz, main_header.free_title_ptr)
      fdb == read_data_block(s, sz, main_header.free_data_ptr)
      title_block == [prev_block |-> 0, next_block |-> 0,
                      data |-> [data |-> CopyInto(TitleLen, name)]]
      data_block == [prev_block |-> 0, next_block |-> 0,
                     data |-> [data |-> CopyInto(DataLen, data)]]
      s1 == write_header_block(s, main_header.free_header_ptr,
                               header_block(free_file_header, main_header))
      s2 == write_title_block(s1, main_header.free_title_ptr, title_block)
      s3 == write_data_block(s2, main_header.free_data_ptr, data_block)
      s4 == write_main_header(s3, updated_main_header(main_header, ftb.value.v))
      fail(r) == [result |-> r, store |-> s]
  IN IF ~mh.ok THEN fail(ResPanic("unwrap on io error"))
     ELSE IF ~ffh.ok THEN fail(ResErr("IO"))
     ELSE IF ~ffh.value.some THEN fail(ResPanic("todo: no header block"))
     ELSE IF ~prev_file_header.ok \/ ~next_file_header.ok
       THEN fail(ResPanic("unwrap on io error"))
     ELSE IF ~ftb.ok THEN fail(ResErr("IO"))
     ELSE IF ~ftb.value.some THEN fail(ResPanic("todo: no title block"))
     ELSE IF ~fdb.ok THEN fail(ResErr("IO"))
     ELSE IF ~fdb.value.some THEN fail(ResPanic("todo: no data block"))
     ELSE IF Min(Len(name), 112) > TitleLen
       THEN fail(ResPanic("index out of bounds"))
     ELSE [result |-> ResOk, store |-> s4]

\* the Main record an insert starts from (NoMain when it cannot be read)
MainOf(s, sz) ==
  LET mh == read_main_header(s, sz)
  IN IF mh.ok THEN mh.value ELSE NoMain

insert(name, data) ==
  /\ alive
  /\ LET o == insert_outcome(store, size, name, data)
         m == MainOf(store, size)
     IN /\ store' = o.store
        /\ alive' = (o.result.kind # "Panic")
        /\ last' = [op |-> "insert", size |-> 0, name |-> name, data |-> data,
                    pre |-> m, result |-> o.result]
        /\ hist' = IF o.result.kind = "Ok"
                     THEN Append(hist, [name |-> name, data |-> data,
                                        header |-> m.free_header_ptr,
                                        title |-> m.free_title_ptr,
                                        block |-> m.free_data_ptr])
                     ELSE hist
  /\ UNCHANGED <<size, codecvars, flatvars>>

-----------------------------------------------------------------------------
(* The directory chain readers: enumerate, find_by_name, list and read.     *)
(* src/filesystem.rs has no reader; these follow the design document.       *)

RECURSIVE TrimZeros(_)
TrimZeros(b) ==
  IF b = <<>> THEN <<>>
  ELSE IF b[Len(b)] = 0 THEN TrimZeros(SubSeq(b, 1, Len(b) - 1))
  ELSE b

\* enumerate: from index, follow next_block until 0, yielding each file's
\* name and content.  ends is FALSE when the walk comes back to a block it
\* has yielded (it then never ends), failed when a block cannot be read.
RECURSIVE Walk(_, _, _, _)
Walk(s, sz, index, seen) ==
  IF index = 0 THEN [entries |-> <<>>, ends |-> TRUE, failed |-> FALSE]
  ELSE IF index \in seen THEN [entries |-> <<>>, ends |-> FALSE, failed |-> FALSE]
  ELSE LET h == read_header_block(s, sz, index)
           t == read_title_block(s, sz, h.value.v.data.start_title_block)
           d == read_data_block(s, sz, h.value.v.data.start_data_block)
       IN IF ~h.ok \/ ~t.ok \/ ~d.ok \/ ~t.value.some \/ ~d.value.some
          THEN [entries |-> <<>>, ends |-> TRUE, failed |-> TRUE]
          ELSE LET rest == Walk(s, sz, h.value.v.next_block, seen \cup {index})
               IN [entries |-> <<[name |-> TrimZeros(t.value.v.data.data),
                                  data |-> TrimZeros(d.value.v.data.data)]>>
                                \o rest.entries,
                   ends |-> rest.ends, failed |-> rest.failed]

enumerate(s, sz) == Walk(s, sz, MainOf(s, sz).first_header_ptr, {})

\* list(): the names in chain order; it returns only if the walk ends
list(s, sz) ==
  LET w == enumerate(s, sz)
  IN IF ~w.ends THEN [kind |-> "Diverges", names |-> <<>>]
     ELSE IF w.failed THEN [kind |-> "Err", names |-> <<>>]
     ELSE [kind |-> "Ok", names |-> [i \in 1..Len(w.entries) |-> w.entries[i].name]]

\* find_by_name, then the content: the first match in chain order
read(s, sz, name) ==
  LET w == enumerate(s, sz)
      hits == {i \in 1..Len(w.entries) : w.entries[i].name = name}
  IN IF hits # {}
       THEN [kind |-> "Ok",
             data |-> w.entries[CHOOSE i \in hits : \A j \in hits : i <= j].data]
     ELSE IF ~w.ends THEN [kind |-> "Diverges", data |-> <<>>]
     ELSE IF w.failed THEN [kind |-> "Err", data |-> <<>>]
     ELSE [kind |-> "NotFound", data |-> <<>>]

-----------------------------------------------------------------------------
(* Inputs *)

Bytes(n, b) == [i \in 1..n |-> b]

\* "hello.txt", "hello2.txt", "Hello, World!", "Hello, from the filesystem!"
hello_txt == <<104, 101, 108, 108, 111, 46, 116, 120, 116>>
hello2_txt == <<104, 101, 108, 108, 111, 50, 46, 116, 120, 116>>
HelloWorld == <<72, 101, 108, 108, 111, 44, 32, 87, 111, 114, 108, 100, 33>>
HelloFs == <<72, 101, 108, 108, 111, 44, 32, 102, 114, 111, 109, 32, 116, 104,
             101, 32, 102, 105, 108, 101, 115, 121, 115, 116, 101, 109, 33>>

\* the <<name, content>> pairs insert is called with under Spec: the two
\* files of the concrete scenario, a name written twice, names and contents
\* at and one past their capacity, and a name and a content that end in a
\* zero byte
Inputs ==
  { <<hello_txt, HelloWorld>>,
    <<hello2_txt, HelloFs>>,
    <<hello_txt, HelloFs>>,
    <<Bytes(TitleLen, 97), Bytes(DataLen, 120)>>,
    <<Bytes(TitleLen + 1, 97), HelloWorld>>,
    <<hello2_txt, Bytes(DataLen, 120) \o <<121>> >>,
    <<<<97, 0>>, HelloWorld>>,
    <<<<98>>, <<72, 0>> >> }

Sizes == 0..(MinTotalSize + MaxSlack)

-----------------------------------------------------------------------------
(* The flat-table file system of src/lib.rs: a 16-byte filesystem header,   *)
(* ten 21-byte file header slots, then the file data.  The store is the     *)
(* Vec<u8> inside the memcache cursor; every access sets the position       *)
(* first, so the position is not part of the state.                         *)

FS_HEADER_SIZE == 16
FILENAME_SIZE == 16
TABLE_ALIGN == FILENAME_SIZE + 5
TOTAL_HEADERS == 10
TABLE_SIZE == TABLE_ALIGN * TOTAL_HEADERS + FS_HEADER_SIZE

U8 == 2^8
U16 == 2^16

\* A Vec<u8> is held as its length and the set of its runs: a run
\* [at, b, n] is n > 0 copies of byte b from offset at on.  The runs are
\* maximal (neighbouring runs hold different bytes), so two vectors are
\* equal exactly when their records are.  A 64 KiB content of one byte is a
\* single run.
EmptyVec == [len |-> 0, runs |-> {}]
Run(b, n) ==
  IF n = 0 THEN EmptyVec ELSE [len |-> n, runs |-> {[at |-> 0, b |-> b, n |-> n]}]

\* joins the run that ends at offset p with the run that starts there when
\* both hold the same byte
MergeAt(S, p) ==
  LET before == {q \in S : q.at + q.n = p}
      after == {r \in S : r.at = p}
  IN IF before = {} \/ after = {} THEN S
     ELSE LET q == CHOOSE q \in before : TRUE
              r == CHOOSE r \in after : TRUE
          IN IF q.b # r.b THEN S
             ELSE (S \ {q, r}) \cup {[at |-> q.at, b |-> q.b, n |-> q.n + r.n]}

\* the vector of a byte sequence
RECURSIVE MergeUpTo(_, _)
MergeUpTo(S, p) == IF p = 0 THEN S ELSE MergeUpTo(MergeAt(S, p), p - 1)

Runs(bytes) ==
  [len |-> Len(bytes),
   runs |-> MergeUpTo({[at |-> i - 1, b |-> bytes[i], n |-> 1] :
                         i \in 1..Len(bytes)}, Len(bytes))]

\* the runs of bytes lo..hi-1 of v, moved to offset to
Slice(v, lo, hi, to) ==
  {[at |-> (IF r.at > lo THEN r.at ELSE lo) - lo + to,
    b |-> r.b,
    n |-> (IF r.at + r.n < hi THEN r.at + r.n ELSE hi)
            - (IF r.at > lo THEN r.at ELSE lo)] :
     r \in {q \in v.runs : q.at < hi /\ q.at + q.n > lo}}

\* the bytes of a short vector, one element per byte
VecBytes(v) ==
  [i \in 1..v.len |-> (CHOOSE r \in v.runs : r.at < i /\ i <= r.at + r.n).b]

\* Cursor<Vec<u8>>: read_exact of n bytes at position pos
Vec_read_exact(v, pos, n) ==
  IF pos + n <= v.len
    THEN IoOk([len |-> n, runs |-> Slice(v, pos, pos + n, 0)])
  ELSE IoErr

\* Cursor<Vec<u8>>: write_all at position pos; the vector grows as needed
\* and a gap between its end and pos is filled with zeros
Vec_write_all(v, pos, bytes) ==
  LET end == pos + bytes.len
      gap == IF pos > v.len
               THEN {[at |-> v.len, b |-> 0, n |-> pos - v.len]}
             ELSE {}
      parts == Slice(v, 0, pos, 0) \cup gap \cup Slice(bytes, 0, bytes.len, pos)
                 \cup Slice(v, end, v.len, end)
  IN [len |-> IF end > v.len THEN end ELSE v.len,
      runs |-> MergeAt(MergeAt(MergeAt(parts, v.len), pos), end)]

\* String::from_utf8 over the bytes used here (ASCII is valid, a byte with
\* the high bit set on its own is not)
from_utf8(v) ==
  IF \A r \in v.runs : r.b < 128 THEN IoOk(v)
  ELSE [ok |-> FALSE, value |-> "InvalidUTF8"]

U_from_le_bytes(r) == LEValue(VecBytes(r.value))

FSHeader_read(v) ==
  LET headers == Vec_read_exact(v, 0, 1)
      free_addr == Vec_read_exact(v, 1, 2)
  IN IF ~headers.ok \/ ~free_addr.ok THEN IoErr
     ELSE IoOk([headers |-> U_from_le_bytes(headers),
                free_addr |-> U_from_le_bytes(free_addr)])

FSHeader_write(h) == Runs(LEBytes(h.headers, 1) \o LEBytes(h.free_addr, 2))

\* a file name is kept as its bytes, one element per byte
FileHeader_read(v, pos) ==
  LET data_addr == Vec_read_exact(v, pos, 2)
      data_len == Vec_read_exact(v, pos + 2, 2)
      name_len == Vec_read_exact(v, pos + 4, 1)
  IN IF ~data_addr.ok THEN [ok |-> FALSE, value |-> "DataAddress"]
     ELSE IF ~data_len.ok THEN [ok |-> FALSE, value |-> "DataLength"]
     ELSE IF ~name_len.ok THEN [ok |-> FALSE, value |-> "FileName"]
     ELSE LET name == Vec_read_exact(v, pos + 5, U_from_le_bytes(name_len))
          IN IF ~name.ok THEN [ok |-> FALSE, value |-> "FileName"]
             ELSE IF ~from_utf8(name.value).ok THEN from_utf8(name.value)
             ELSE IoOk([data_addr |-> U_from_le_bytes(data_addr),
                        data_len |-> U_from_le_bytes(data_len),
                        name |-> VecBytes(name.value)])

\* the bytes FileHeader::write emits; name_len is "name_buf.len() as u8"
FileHeader_write(h) ==
  Runs(LEBytes(h.data_addr, 2) \o LEBytes(h.data_len, 2)
         \o LEBytes(Len(h.name) % U8, 1) \o h.name)

SlotAddr(i) == FS_HEADER_SIZE + TABLE_ALIGN * i

\* the ten slots, read in order; the first failure is the result
scan_headers(v) ==
  LET slots == [i \in 1..TOTAL_HEADERS |-> FileHeader_read(v, SlotAddr(i - 1))]
  IN IF \E i \in 1..TOTAL_HEADERS : ~slots[i].ok
       THEN slots[CHOOSE i \in 1..TOTAL_HEADERS :
                    /\ ~slots[i].ok
                    /\ \A j \in 1..(i - 1) : slots[j].ok]
       ELSE IoOk([i \in 1..TOTAL_HEADERS |-> slots[i].value])

\* the address of the first slot whose name is filename
get_file_header_addr(v, filename) ==
  LET headers == scan_headers(v)
  IN IF ~headers.ok THEN headers
     ELSE LET hit == {i \in 1..TOTAL_HEADERS : headers.value[i].name = filename}
          IN IF hit = {} THEN IoOk(None)
             ELSE LET i == CHOOSE k \in hit : \A j \in hit : k <= j
                  IN IoOk(Some((i - 1) * TABLE_ALIGN + FS_HEADER_SIZE))

get_file_data(v, header) ==
  LET data == Vec_read_exact(v, header.data_addr + TABLE_SIZE, header.data_len)
  IN IF ~data.ok THEN data ELSE from_utf8(data.value)

\* Filesystem::init, reached from load with no backing file
flat_init(v) ==
  IF v.len > 0 THEN v ELSE Vec_write_all(v, 0, Run(0, TABLE_SIZE))

NoHeader == [data_addr |-> 0, data_len |-> 0, name |-> <<>>]

CreateResult(result, header, v) ==
  [result |-> result, header |-> header, memcache |-> v]

\* the first check of create_file
FileNameTooLarge_inclusive(filename) == Len(filename) >= FILENAME_SIZE

FileNameTooLarge(filename) == Len(filename) > FILENAME_SIZE

\* create_file: the set of outcomes of one call.  The sum that becomes
\* free_addr is computed in u16: when it overflows, a build with overflow
\* checks panics and a build without them wraps.
create_file_outcomes(v, filename, content) ==
  IF FileNameTooLarge(filename)
    THEN {CreateResult(ResErr("FileNameTooLarge"), NoHeader, v)}
  ELSE LET fs_header == FSHeader_read(v) IN
  IF ~fs_header.ok
    THEN {CreateResult(ResPanic("unwrap"), NoHeader, v)}
  ELSE IF fs_header.value.headers >= TOTAL_HEADERS % U8
    THEN {CreateResult(ResErr("NoMoreSpaceInTable"), NoHeader, v)}
  ELSE LET existing_header_addr == get_file_header_addr(v, filename) IN
  IF ~existing_header_addr.ok
    THEN {CreateResult(ResPanic("unwrap"), NoHeader, v)}
  ELSE
    LET data_addr == fs_header.value.free_addr
        header_addr ==
          IF existing_header_addr.value.some THEN existing_header_addr.value.v
          ELSE fs_header.value.headers * TABLE_ALIGN + FS_HEADER_SIZE
        file_header == [data_addr |-> data_addr % U16,
                        data_len |-> content.len % U16,
                        name |-> filename]
        v1 == Vec_write_all(v, header_addr, FileHeader_write(file_header))
        v2 == Vec_write_all(v1, data_addr + TABLE_SIZE, content)
        headers == IF existing_header_addr.value.some
                     THEN fs_header.value.headers
                     ELSE fs_header.value.headers + 1
        sum == (data_addr % U16) + (content.len % U16)
        v3 == Vec_write_all(v2, 0,
                FSHeader_write([headers |-> headers, free_addr |-> sum % U16]))
    IN IF sum >= U16
         THEN {CreateResult(ResPanic("overflow"), NoHeader, v2),
               CreateResult(ResOk, file_header, v3)}
         ELSE {CreateResult(ResOk, file_header, v3)}

FlatNew == [op |-> "new", name |-> <<>>, content |-> EmptyVec,
            result |-> ResOk, header |-> NoHeader]

\* after Filesystem::new(None)
FlatIdle ==
  /\ memcache = EmptyVec
  /\ falive = TRUE
  /\ flast = FlatNew
  /\ fcalls = <<>>

load ==
  /\ falive
  /\ memcache' = flat_init(memcache)
  /\ flast' = [FlatNew EXCEPT !.op = "load"]
  /\ UNCHANGED <<falive, fcalls, fsvars, codecvars>>

create_file(filename, content) ==
  /\ falive
  /\ \E o \in create_file_outcomes(memcache, filename, content) :
       /\ memcache' = o.memcache
       /\ falive' = (o.result.kind # "Panic")
       /\ flast' = [op |-> "create_file", name |-> filename,
                    content |-> content, result |-> o.result,
                    header |-> o.header]
       /\ fcalls' = IF o.result.kind = "Ok"
                      THEN Append(fcalls, [name |-> filename,
                                           content |-> content,
                                           header |-> o.header])
                      ELSE fcalls
  /\ UNCHANGED <<fsvars, codecvars>>

-----------------------------------------------------------------------------
(* Specifications *)

New == [op |-> "new", size |-> 0, name |-> NoName, data |-> NoName,
        pre |-> NoMain, result |-> ResOk]

NoValue == [type |-> "none", value |-> <<>>]
NoDec == [n |-> 0 - 1, res |-> IoErr]

\* the bytes that follow the encoded record in a longer reader
Surplus == [i \in 1..MaxSurplus |-> 255]

CodecIdle ==
  /\ cval = NoValue
  /\ cbytes = <<>>
  /\ cdec = NoDec

\* after Filesystem::new over an empty in-memory store
Init ==
  /\ store = NoStore
  /\ size = 0
  /\ alive = TRUE
  /\ last = New
  /\ hist = <<>>
  /\ CodecIdle
  /\ FlatIdle

\* a run calls init once, first, with any size
DoInit == alive /\ last.op = "new" /\ \E sz \in Sizes : init(sz)

\* then up to MaxInserts inserts (an insert before init is a run too)
DoInsert ==
  alive /\ Len(hist) < MaxInserts /\ \E p \in Inputs : insert(p[1], p[2])

Next == DoInit \/ DoInsert

Spec == Init /\ [][Next]_vars

\* A capacity run: init with a size that fits, then files with pairwise
\* distinct names, "f000", "f001", ..., one after the other for as long as
\* insert returns.
Digits(k) ==
  <<48 + ((k \div 100) % 10), 48 + ((k \div 10) % 10), 48 + (k % 10)>>
FillName(k) == <<102>> \o Digits(k)
FillData(k) == <<100>> \o Digits(k)

FitSizes == MinTotalSize..(MinTotalSize + MaxSlack)

DoInitFit == alive /\ last.op = "new" /\ \E sz \in FitSizes : init(sz)

DoFill ==
  alive /\ last.op # "new" /\ insert(FillName(Len(hist)), FillData(Len(hist)))

NextFill == DoInitFit \/ DoFill

SpecFill == Init /\ [][NextFill]_vars

-----------------------------------------------------------------------------
(* The codec on its own: a record is encoded, and the bytes, or a prefix of *)
(* them, are decoded.                                                       *)

U64Samples == {0, 255, 16909060, 2147483647}

TitleSamples ==
  {Zeros(TitleLen), Bytes(TitleLen, 255), CopyInto(TitleLen, hello_txt)}
DataSamples ==
  {Zeros(DataLen), [i \in 1..DataLen |-> i], CopyInto(DataLen, HelloWorld)}

BlockValues(k, payloads) ==
  {[type |-> k, value |-> [prev_block |-> p, next_block |-> n, data |-> d]] :
     p \in U64Samples, n \in U64Samples, d \in payloads}

CodecValues ==
  {[type |-> "Main", value |-> m] :
     m \in [free_header_ptr : U64Samples, free_title_ptr : U64Samples,
            free_data_ptr : U64Samples, first_header_ptr : U64Samples]}
  \cup BlockValues("H", [start_title_block : U64Samples,
                         start_data_block : U64Samples])
  \cup BlockValues("T", [data : TitleSamples])
  \cup BlockValues("D", [data : DataSamples])

to_bytes(c) ==
  IF c.type = "Main" THEN BlockKindMain_to_bytes(c.value)
  ELSE Block_to_bytes(c.type, c.value)

from_bytes(type, r) ==
  IF type = "Main" THEN BlockKindMain_from_bytes(r)
  ELSE Block_from_bytes(type, r)

FsIdle ==
  /\ store = NoStore
  /\ size = 0
  /\ alive = TRUE
  /\ last = New
  /\ hist = <<>>

InitCodec ==
  /\ FsIdle
  /\ FlatIdle
  /\ cval \in CodecValues
  /\ cbytes = <<>>
  /\ cdec = NoDec

Encode ==
  /\ cbytes = <<>>
  /\ cbytes' = to_bytes(cval)
  /\ UNCHANGED <<cval, cdec, fsvars, flatvars>>

\* decode from a reader that holds n bytes: a prefix of the encoding, or
\* the whole encoding followed by up to MaxSurplus further bytes
Decode ==
  /\ cbytes # <<>>
  /\ cdec = NoDec
  /\ \E n \in 0..(Len(cbytes) + MaxSurplus) :
       cdec' = [n |-> n,
                res |-> from_bytes(cval.type, Take(cbytes \o Surplus, n))]
  /\ UNCHANGED <<cval, cbytes, fsvars, flatvars>>

NextCodec == Encode \/ Decode

SpecCodec == InitCodec /\ [][NextCodec]_vars

\* "test.txt", "test2.txt", "This is a test.", "This is another test."
test_txt == <<116, 101, 115, 116, 46, 116, 120, 116>>
test2_txt == <<116, 101, 115, 116, 50, 46, 116, 120, 116>>
ThisIsATest == <<84, 104, 105, 115, 32, 105, 115, 32, 97, 32, 116, 101, 115,
                 116, 46>>
ThisIsAnotherTest == <<84, 104, 105, 115, 32, 105, 115, 32, 97, 110, 111, 116,
                       104, 101, 114, 32, 116, 101, 115, 116, 46>>

\* the <<filename, content>> pairs create_file is called with under
\* SpecFlat: the files of the tests, a name re-created with other content,
\* names of 0, FILENAME_SIZE and FILENAME_SIZE + 1 bytes, and contents as
\* long as the 16-bit address space and one byte shorter
FlatInputs ==
  { <<test_txt, Runs(ThisIsATest)>>,
    <<test2_txt, Runs(ThisIsAnotherTest)>>,
    <<test_txt, Runs(ThisIsAnotherTest)>>,
    <<<<>>, Runs(ThisIsATest)>>,
    <<Bytes(FILENAME_SIZE, 97), Runs(ThisIsATest)>>,
    <<Bytes(FILENAME_SIZE + 1, 97), Runs(ThisIsATest)>>,
    <<test2_txt, Run(120, U16)>>,
    <<test_txt, Run(121, U16 - 1)>> }

\* a run calls load first, or not at all
DoLoad == flast.op = "new" /\ load

DoCreate ==
  /\ Len(fcalls) < MaxCreates
  /\ \E p \in FlatInputs : create_file(p[1], p[2])

NextFlat == DoLoad \/ DoCreate

SpecFlat == Init /\ [][NextFlat]_vars

\* filling the table: "test.txt00", "test.txt01", ... after the tests, until
\* the table refuses; the name is numbered by the stored header count
FlatFillName(k) == test_txt \o <<48 + (k \div 10), 48 + (k % 10)>>

StoredHeaders ==
  IF FSHeader_read(memcache).ok THEN FSHeader_read(memcache).value.headers
  ELSE 0

DoFlatFill == create_file(FlatFillName(StoredHeaders), Runs(ThisIsATest))

\* a name that is already stored, created again with other content, once
\* in a run
DoRecreate ==
  /\ Len(fcalls) = StoredHeaders
  /\ \E k \in 0..(StoredHeaders - 1) :
       create_file(FlatFillName(k), Runs(ThisIsAnotherTest))

NextFlatFill == DoLoad \/ DoFlatFill \/ DoRecreate

SpecFlatFill == Init /\ [][NextFlatFill]_vars

-----------------------------------------------------------------------------
(* Claims *)

InsertedOk == last.op = "insert" /\ last.result.kind = "Ok"
Fits(name, data) == Len(name) <= TitleLen /\ Len(data) <= DataLen
NoTrailingZero(b) == b = <<>> \/ b[Len(b)] # 0
\* an entry of hist that fits its blocks and ends in no zero byte
Plain(e) ==
  /\ Fits(e.name, e.data)
  /\ NoTrailingZero(e.name)
  /\ NoTrailingZero(e.data)
ReadOk(data) == [kind |-> "Ok", data |-> data]

\* C1 as stated: after a successful insert(name, content) with a name of at
\* most 16 bytes and a content of at most 112 bytes, read(name) returns
\* content, whatever the bytes are.
C1_RoundTripAnyBytes ==
  (InsertedOk /\ Fits(last.name, last.data))
    => read(store, size, last.name) = ReadOk(last.data)

\* C1, amended: after a successful insert(name, content), after any earlier
\* successful inserts, with name of at most 16 bytes and content of at most
\* 112 bytes, neither ending in a zero byte, read(name) returns content.
C1_RoundTrip ==
  (InsertedOk /\ Fits(last.name, last.data)
     /\ NoTrailingZero(last.name) /\ NoTrailingZero(last.data))
    => read(store, size, last.name) = ReadOk(last.data)

\* a second file written and read back
C1_Witness ==
  /\ InsertedOk
  /\ Len(hist) >= 2
  /\ last.name = hello_txt
  /\ last.data = HelloFs
  /\ read(store, size, last.name) = ReadOk(HelloFs)

\* C2: every file inserted, whose name no later insert used, is still read
\* back with its content.
C2_StaysReadable ==
  (\A k \in 1..Len(hist) : Plain(hist[k])) =>
    \A i \in 1..Len(hist) :
      (\A j \in (i + 1)..Len(hist) : hist[j].name # hist[i].name)
        => read(store, size, hist[i].name) = ReadOk(hist[i].data)

Reverse(q) == [i \in 1..Len(q) |-> q[Len(q) + 1 - i]]
HistNames == [i \in 1..Len(hist) |-> hist[i].name]
DistinctNames == \A i, j \in 1..Len(hist) : i # j => hist[i].name # hist[j].name

\* C3: after init and n successful inserts with pairwise distinct names,
\* list() returns exactly those names, most recent first.
C3_ListNewestFirst ==
  (size > 0 /\ DistinctNames /\ \A i \in 1..Len(hist) : Plain(hist[i]))
    => list(store, size) = [kind |-> "Ok", names |-> Reverse(HistNames)]

\* the number of successful inserts before the last operation
InsertsBefore == IF InsertedOk THEN Len(hist) - 1 ELSE Len(hist)
Initialized == size > 0

\* C4: the insert that follows Data.count successful inserts of distinct
\* files fails with the data-free-list-exhausted error.
C4_DataExhausted ==
  (last.op = "insert" /\ Initialized /\ DistinctNames
     /\ InsertsBefore = block_count(BlockKindData))
    => last.result = ResErr("ExhaustedFreeList(Data)")

\* the insert started with a free block of every kind
HadFreeBlocks ==
  /\ last.pre.free_header_ptr # 0
  /\ last.pre.free_title_ptr # 0
  /\ last.pre.free_data_ptr # 0

\* C5: an insert with a name of exactly 16 bytes succeeds; one with a name
\* of 17 bytes or more returns the name-too-large error.
C5_NameBoundary ==
  (last.op = "insert" /\ Initialized /\ HadFreeBlocks) =>
    /\ (Len(last.name) = TitleLen /\ Len(last.data) <= DataLen)
         => last.result = ResOk
    /\ Len(last.name) > TitleLen => last.result = ResErr("NameTooLarge")

\* C6: an insert with a content of exactly 112 bytes succeeds; one with a
\* content of 113 bytes or more returns the content-too-large error and
\* stores nothing.
C6_ContentBoundary ==
  (last.op = "insert" /\ Initialized /\ HadFreeBlocks) =>
    /\ (Len(last.data) = DataLen /\ Len(last.name) <= TitleLen)
         => last.result = ResOk
    /\ Len(last.data) > DataLen => last.result = ResErr("ContentTooLarge")

\* C7: after init(total_size) with total_size at least the sum of the four
\* superblock sizes, init has returned Ok and the Main record read back has
\* each free pointer at its region's first block slot and first_header_ptr 0.
C7_InitMainRecord ==
  (last.op = "init" /\ last.size >= MinTotalSize) =>
    /\ last.result = ResOk
    /\ read_main_header(store, size) =
         IoOk([free_header_ptr |-> BlockAddr(BlockKindHeader, header_sb_start, 0),
               free_title_ptr |-> BlockAddr(BlockKindTitle, title_sb_start, 0),
               free_data_ptr |-> BlockAddr(BlockKindData, data_sb_start, 0),
               first_header_ptr |-> 0])

\* an init with room to spare, and the three pointers it leaves
C7_Witness ==
  /\ last.op = "init"
  /\ last.size > MinTotalSize
  /\ last.result = ResOk
  /\ MainOf(store, size).free_header_ptr = 48
  /\ MainOf(store, size).free_title_ptr = 4160
  /\ MainOf(store, size).free_data_ptr = 8272

\* the first tier, in the order Main, Header, Title, Data, whose cumulative
\* size exceeds sz
FirstTierTooSmall(sz) ==
  IF sz < header_sb_start THEN "TooSmallForMainSuperBlock"
  ELSE IF sz < title_sb_start THEN "TooSmallForHeaderSuperBlock"
  ELSE IF sz < data_sb_start THEN "TooSmallForTitleSuperBlock"
  ELSE "TooSmallForDataSuperBlock"

\* C8: init(total_size) with a total_size too small for the layout returns,
\* as an error value, the too-small error of the first tier that does not fit.
C8_TierErrorReturned ==
  (last.op = "init" /\ last.size < MinTotalSize)
    => last.result = ResErr(FirstTierTooSmall(last.size))

\* C9: an insert called while the free pointer of a kind it pops is 0
\* returns the free-list-exhausted error of that kind, and does not abort.
C9_ExhaustedIsError ==
  (last.op = "insert" /\ Initialized /\ ~HadFreeBlocks) =>
    /\ last.result.kind = "Err"
    /\ last.result.what =
         (IF last.pre.free_header_ptr = 0 THEN "ExhaustedFreeList(Header)"
          ELSE IF last.pre.free_title_ptr = 0 THEN "ExhaustedFreeList(Title)"
          ELSE "ExhaustedFreeList(Data)")

\* the fixed width of each record type's encoding
Width(type) == IF type = "D" THEN 128 ELSE 32

\* C10: the encoding of every record has the fixed width of its type, and
\* decoding the whole encoding gives back the record.
C10_CodecRoundTrip ==
  /\ cbytes # <<>> => Len(cbytes) = Width(cval.type)
  /\ (cdec # NoDec /\ cdec.n = Len(cbytes)) => cdec.res = IoOk(cval.value)

\* a data block, encoded and decoded whole
C10_Witness ==
  /\ cval.type = "D"
  /\ cval.value.next_block = 16909060
  /\ cval.value.data.data = CopyInto(DataLen, HelloWorld)
  /\ Len(cbytes) = 128
  /\ cdec.n = 128
  /\ cdec.res = IoOk(cval.value)

-----------------------------------------------------------------------------
(* Claims about the free lists and the directory chain *)

KindRecord(k) ==
  CASE k = "H" -> BlockKindHeader
    [] k = "T" -> BlockKindTitle
    [] k = "D" -> BlockKindData

RegionStart(k) ==
  CASE k = "H" -> header_sb_start
    [] k = "T" -> title_sb_start
    [] k = "D" -> data_sb_start

FreePtr(m, k) ==
  CASE k = "H" -> m.free_header_ptr
    [] k = "T" -> m.free_title_ptr
    [] k = "D" -> m.free_data_ptr

NextOf(k, s, sz, index) ==
  LET b == read_block(k, s, sz, index)
  IN IF b.ok THEN b.value.v.next_block ELSE 0

\* the addresses met by following next_block from index, in order, up to
\* address 0 or a block that cannot be read, for at most fuel steps
RECURSIVE Steps(_, _, _, _, _)
Steps(k, s, sz, index, fuel) ==
  IF index = 0 \/ fuel = 0 THEN <<>>
  ELSE <<index>> \o Steps(k, s, sz, NextOf(k, s, sz, index), fuel - 1)

\* the same for legs legs of LegLen steps each.  block_count + 1 steps
\* tell a chain that ends from one that runs into a cycle: a chain over
\* block_count blocks that meets no block twice ends within block_count
\* steps.
LegLen == 16

RECURSIVE Trail(_, _, _, _, _)
Trail(k, s, sz, index, legs) ==
  IF index = 0 \/ legs = 0 THEN <<>>
  ELSE LET leg == Steps(k, s, sz, index, LegLen)
       IN leg \o Trail(k, s, sz,
                       IF Len(leg) < LegLen THEN 0
                       ELSE NextOf(k, s, sz, leg[LegLen]),
                       legs - 1)

Chain(k, s, sz, index) ==
  Trail(k, s, sz, index, (block_count(KindRecord(k)) \div LegLen) + 1)

\* following next_block from index reaches 0 without meeting a block twice
ReachesEnd(k, s, sz, index) ==
  LET q == Chain(k, s, sz, index)
  IN /\ Len(q) <= block_count(KindRecord(k))
     /\ \A i \in 1..Len(q) : read_block(k, s, sz, q[i]).ok
     /\ \A i, j \in 1..Len(q) : i # j => q[i] # q[j]

Range(q) == {q[i] : i \in 1..Len(q)}
FreeBlocks(k) ==
  Range(Chain(k, store, size, FreePtr(MainOf(store, size), k)))
DirectoryHeaders ==
  Range(Chain("H", store, size, MainOf(store, size).first_header_ptr))

\* C15: a successful insert leaves each of the three free pointers of Main
\* equal to the next_block the popped block of that kind held before it.
C15_FreePointersAdvance ==
  [][(last'.op = "insert" /\ last'.result.kind = "Ok") =>
       \A k \in {"H", "T", "D"} :
         FreePtr(MainOf(store', size'), k)
           = read_block(k, store, size,
                        FreePtr(MainOf(store, size), k)).value.v.next_block]_vars

\* C16: in every state reached from init by successful inserts, following
\* next_block from first_header_ptr reaches 0 without visiting a header
\* block twice.
C16_DirectoryChainEnds ==
  Initialized =>
    ReachesEnd("H", store, size, MainOf(store, size).first_header_ptr)

\* C17: no header block is on both the free chain and the directory chain,
\* and no title or data block a directory header refers to is on the free
\* chain of its kind.
C17_FreeAndUsedDisjoint ==
  Initialized =>
    /\ FreeBlocks("H") \cap DirectoryHeaders = {}
    /\ \A h \in DirectoryHeaders :
         LET b == read_header_block(store, size, h).value.v
         IN /\ b.data.start_title_block \notin FreeBlocks("T")
            /\ b.data.start_data_block \notin FreeBlocks("D")

\* C18: the header, title and data addresses a successful insert takes
\* differ from those every earlier successful insert took.
C18_NoAddressReused ==
  \A i, j \in 1..Len(hist) :
    i < j =>
      /\ hist[i].header # hist[j].header
      /\ hist[i].title # hist[j].title
      /\ hist[i].block # hist[j].block

InitOk == last.op = "init" /\ last.result.kind = "Ok"

\* C19: after init the count blocks of each region form one chain from
\* the free pointer in ascending address order: block i has next_block the
\* address of block i + 1 (0 for the last), prev_block the address of block
\* i - 1 (0 for the first) and an all-zero payload, and following next_block
\* from the free pointer visits exactly the count blocks.
C19_InitChains ==
  InitOk =>
    \A k \in {"H", "T", "D"} :
      LET K == KindRecord(k)
          addr(i) == BlockAddr(K, RegionStart(k), i)
          n == block_count(K)
      IN /\ \A i \in 0..(n - 1) :
              read_block(k, store, size, addr(i))
                = IoOk(Some([prev_block |-> IF i = 0 THEN 0 ELSE addr(i - 1),
                             next_block |-> IF i = n - 1 THEN 0 ELSE addr(i + 1),
                             data |-> ZeroPayload(k)]))
         /\ Chain(k, store, size, FreePtr(MainOf(store, size), k))
              = [i \in 1..n |-> addr(i - 1)]

\* init succeeded on a store larger than the minimum
C19_Witness == InitOk /\ size > MinTotalSize

\* C20: a successful insert writes the popped header block with next_block
\* equal to first_header_ptr as it was before the insert, and afterwards
\* first_header_ptr is that block's address.
C20_PushFront ==
  InsertedOk =>
    /\ read_header_block(store, size, last.pre.free_header_ptr)
         .value.v.next_block = last.pre.first_header_ptr
    /\ MainOf(store, size).first_header_ptr = last.pre.free_header_ptr

\* an insert succeeded, and one after it that found a directory head
C20_Witness ==
  /\ InsertedOk
  /\ last.pre.first_header_ptr # 0
  /\ Len(hist) = 2

-----------------------------------------------------------------------------
(* Claims about what insert writes and what it leaves alone *)

\* b followed by zero bytes up to n bytes (b itself when it is longer)
Padded(b, n) == IF Len(b) <= n THEN b \o Zeros(n - Len(b)) ELSE b

\* C21: after a successful insert(name, content) the header block at
\* first_header_ptr refers to the title and data addresses that were free
\* before the insert, the title block there holds name followed by zero
\* bytes up to 16 bytes, and the data block there holds content followed by
\* zero bytes up to 112 bytes.
C21_InsertedBlocks ==
  InsertedOk =>
    LET m == MainOf(store, size)
        h == read_header_block(store, size, m.first_header_ptr).value.v
        t == read_title_block(store, size, h.data.start_title_block).value.v
        d == read_data_block(store, size, h.data.start_data_block).value.v
    IN /\ h.data.start_title_block = last.pre.free_title_ptr
       /\ h.data.start_data_block = last.pre.free_data_ptr
       /\ t.data.data = Padded(last.name, TitleLen)
       /\ d.data.data = Padded(last.data, DataLen)

\* the successful inserts of name so far, oldest first
InsertsOf(name) == SelectSeq(hist, LAMBDA e : e.name = name)

\* C22: when a name was inserted twice with different content, read(name)
\* returns the content of the later insert and list() still holds both
\* entries.
C22_LaterWinsBothListed ==
  (Initialized /\ \A k \in 1..Len(hist) : Plain(hist[k])) =>
    \A i, j \in 1..Len(hist) :
      (/\ i < j
       /\ hist[i].name = hist[j].name
       /\ hist[i].data # hist[j].data
       /\ \A k \in (j + 1)..Len(hist) : hist[k].name # hist[j].name) =>
        /\ read(store, size, hist[j].name) = ReadOk(hist[j].data)
        /\ list(store, size).kind = "Ok"
        /\ Len(SelectSeq(list(store, size).names,
                         LAMBDA n : n = hist[j].name))
             = Len(InsertsOf(hist[j].name))

\* p is 0 or the start address of a block slot of kind k
ValidPtr(k, p) == p = 0 \/ p \in BlockAddrs(KindRecord(k), RegionStart(k))

\* C23: in every state reached from init by inserts, every pointer stored
\* in the Main record, in a block's prev_block or next_block, or in a
\* header's start_title_block or start_data_block is 0 or the start address
\* of a block slot in the region of the kind it refers to.
C23_PointersValid ==
  Initialized =>
    LET m == MainOf(store, size)
    IN /\ ValidPtr("H", m.free_header_ptr)
       /\ ValidPtr("T", m.free_title_ptr)
       /\ ValidPtr("D", m.free_data_ptr)
       /\ ValidPtr("H", m.first_header_ptr)
       /\ \A k \in {"H", "T", "D"} :
            \A a \in BlockAddrs(KindRecord(k), RegionStart(k)) :
              LET b == read_block(k, store, size, a)
              IN /\ b.ok
                 /\ ValidPtr(k, b.value.v.prev_block)
                 /\ ValidPtr(k, b.value.v.next_block)
                 /\ k = "H" =>
                      /\ ValidPtr("T", b.value.v.data.start_title_block)
                      /\ ValidPtr("D", b.value.v.data.start_data_block)

\* the insert that took the last free title block
C23_Witness ==
  /\ InsertedOk
  /\ Len(hist) = block_count(BlockKindTitle)
  /\ MainOf(store, size).free_title_ptr = 0

FailedInsertKeepsStore ==
  [][(last'.op = "insert" /\ last'.result.kind # "Ok") =>
       (store' = store /\ size' = size)]_vars

\* C25: a successful insert changes only the Main record and the three
\* blocks at the free_header_ptr, free_title_ptr and free_data_ptr of
\* before the insert; every other block, every region kind header and every
\* other byte of the store stays as it was.
C25_InsertFrame ==
  [][(last'.op = "insert" /\ last'.result.kind = "Ok") =>
       LET m == MainOf(store, size)
           touched == {0, m.free_header_ptr, m.free_title_ptr, m.free_data_ptr}
       IN /\ size' = size
          /\ DOMAIN store' = DOMAIN store
          /\ \A a \in DOMAIN store : Len(store'[a]) = Len(store[a])
          /\ \A a \in DOMAIN store \ touched : store'[a] = store[a]]_vars

\* a third insert succeeded, on the third title block
C25_Witness ==
  /\ InsertedOk
  /\ Len(hist) = 3
  /\ last.pre.free_title_ptr = BlockAddr(BlockKindTitle, title_sb_start, 2)
  /\ size > MinTotalSize

\* where the region after that of kind k starts (the minimum total size
\* after Data)
RegionEnd(k) ==
  CASE k = "H" -> title_sb_start
    [] k = "T" -> data_sb_start
    [] k = "D" -> MinTotalSize

\* C26: the layout is exact and free of overlap: each region starts at the
\* running sum of the superblock sizes before it, a superblock is
\* record_size * count + header size bytes, block i of a kind lies at region
\* start + header size + i * record_size and the encoded block init writes
\* there is exactly record_size bytes long, and the last block of a region
\* ends where the next region starts (at the minimum total size for Data).
C26_LayoutExact ==
  InitOk =>
    LET sbs(K) == block_size(K) * block_count(K) + header_size(K)
    IN /\ header_sb_start = sbs(BlockKindMain)
       /\ title_sb_start = sbs(BlockKindMain) + sbs(BlockKindHeader)
       /\ data_sb_start
            = sbs(BlockKindMain) + sbs(BlockKindHeader) + sbs(BlockKindTitle)
       /\ MinTotalSize
            = sbs(BlockKindMain) + sbs(BlockKindHeader) + sbs(BlockKindTitle)
                + sbs(BlockKindData)
       /\ \A K \in {BlockKindMain, BlockKindHeader, BlockKindTitle,
                     BlockKindData} : super_block_size(K) = sbs(K)
       /\ Len(store[0]) = header_size(BlockKindMain)
       /\ \A k \in {"H", "T", "D"} :
            LET K == KindRecord(k)
                start == RegionStart(k)
                at(i) == start + header_size(K) + i * block_size(K)
            IN /\ start \in DOMAIN store
               /\ Len(store[start]) = header_size(K)
               /\ \A i \in 0..(block_count(K) - 1) :
                    /\ at(i) \in DOMAIN store
                    /\ Len(store[at(i)]) = block_size(K)
                    /\ Len(Block_to_bytes(k, InitBlock(k, K, start, i)))
                         = block_size(K)
                    /\ store[at(i)] = Block_to_bytes(k, InitBlock(k, K, start, i))
               /\ at(block_count(K) - 1) + block_size(K) = RegionEnd(k)
       /\ \A a \in DOMAIN store :
            (a + Len(store[a])) \in (DOMAIN store \cup {size})

\* init succeeded on a store of exactly the minimum size
C26_Witness == InitOk /\ size = MinTotalSize /\ MinTotalSize \notin DOMAIN store

-----------------------------------------------------------------------------
(* Claims about decoding from short readers *)

\* C27: decoding a record from a reader that holds fewer bytes than the
\* fixed width of its type returns the I/O error value (UnexpectedEof), and
\* decoding succeeds exactly when the reader holds at least the full width;
\* a successful decode gives the record of the first Width bytes.
C27_ShortReadIsError ==
  cdec # NoDec =>
    /\ cdec.res.ok <=> cdec.n >= Width(cval.type)
    /\ cdec.n < Width(cval.type) => cdec.res = IoErr
    /\ cdec.n >= Width(cval.type) => cdec.res = IoOk(cval.value)

\* a title block decoded from a reader one byte short of the payload's end
C27_Witness ==
  /\ cval.type = "T"
  /\ Len(cbytes) = Width("T")
  /\ cdec.n = Width("T") - 1
  /\ cdec.res = IoErr

-----------------------------------------------------------------------------
(* Claims about the flat table of src/lib.rs *)

Loaded == memcache.len > 0
Created == flast.op = "create_file" /\ flast.result.kind = "Ok"

\* C11: after any sequence of successful create_file calls, get_file_data on
\* the header any of those calls returned yields exactly the content passed
\* to that call, whatever was created afterwards.
C11_ContentKept ==
  falive =>
    \A i \in 1..Len(fcalls) :
      get_file_data(memcache, fcalls[i].header) = IoOk(fcalls[i].content)

RECURSIVE ContentTotal(_)
ContentTotal(q) ==
  IF q = <<>> THEN 0 ELSE Head(q).content.len + ContentTotal(Tail(q))

\* C12: after load and any sequence of successful create_file calls, the
\* store is TABLE_SIZE plus the sum of the content lengths long, and the
\* stored free_addr is that sum.
C12_SizeAndFreeAddr ==
  (falive /\ Loaded) =>
    /\ memcache.len = TABLE_SIZE + ContentTotal(fcalls)
    /\ FSHeader_read(memcache).value.free_addr = ContentTotal(fcalls)

NameStored(v, filename) ==
  /\ get_file_header_addr(v, filename).ok
  /\ get_file_header_addr(v, filename).value.some

\* C13: on a loaded store, create_file with a name of at most FILENAME_SIZE
\* bytes returns NoMoreSpaceInTable when TOTAL_HEADERS headers are stored,
\* succeeds when fewer are stored and the name is new, and a call that
\* returns NoMoreSpaceInTable leaves the store as it was.
C13_TableSpace ==
  [][(Loaded /\ flast'.op = "create_file"
        /\ Len(flast'.name) <= FILENAME_SIZE) =>
       /\ StoredHeaders >= TOTAL_HEADERS =>
            flast'.result = ResErr("NoMoreSpaceInTable")
       /\ (StoredHeaders < TOTAL_HEADERS /\ ~NameStored(memcache, flast'.name)) =>
            flast'.result.kind = "Ok"
       /\ flast'.result = ResErr("NoMoreSpaceInTable") => memcache' = memcache]_vars

\* C14: create_file with a name longer than FILENAME_SIZE bytes returns
\* FileNameTooLarge and leaves the store as it was; with a name of at most
\* FILENAME_SIZE bytes it never returns FileNameTooLarge.
C14_NameLimit ==
  [][flast'.op = "create_file" =>
       IF Len(flast'.name) > FILENAME_SIZE
         THEN /\ flast'.result = ResErr("FileNameTooLarge")
              /\ memcache' = memcache
         ELSE flast'.result # ResErr("FileNameTooLarge")]_vars

\* a name one byte too long was refused on a store that holds files
C14_Witness ==
  /\ flast.op = "create_file"
  /\ Len(flast.name) = FILENAME_SIZE + 1
  /\ flast.result = ResErr("FileNameTooLarge")
  /\ \E i \in 1..Len(fcalls) : Len(fcalls[i].name) = FILENAME_SIZE


\* the names of the successful create_file calls so far
CreatedNames == {fcalls[i].name : i \in 1..Len(fcalls)}

\* one successful create_file call on a loaded store: a name created before
\* keeps its slot and the header count; a new name goes to slot `headers`
\* and the count grows by one
CreateKeepsCount ==
  (Loaded /\ flast'.op = "create_file" /\ flast'.result.kind = "Ok") =>
    IF flast'.name \in CreatedNames
      THEN /\ StoredHeaders' = StoredHeaders
           /\ get_file_header_addr(memcache', flast'.name)
                = get_file_header_addr(memcache, flast'.name)
      ELSE /\ StoredHeaders' = StoredHeaders + 1
           /\ get_file_header_addr(memcache', flast'.name)
                = IoOk(Some(SlotAddr(StoredHeaders)))

\* the header count is the number of distinct names created, and every
\* created name is still found in the table
CountIsNames ==
  (falive /\ Loaded) =>
    /\ StoredHeaders = Cardinality(CreatedNames)
    /\ \A name \in CreatedNames : NameStored(memcache, name)

\* C28: create_file with a stored name rewrites that name's slot and leaves
\* the header count unchanged, with a new name it writes slot `headers` and
\* increases the count by one; hence the header count equals the number of
\* distinct names created and no stored file's slot is overwritten by a
\* file of another name.
C28_CountIsDistinctNames == []CountIsNames /\ [][CreateKeepsCount]_vars

====
